---- MODULE Spec2Model ----
(***************************************************************************)
(* Courtside Stats: the live-game subsystem.                               *)
(*                                                                         *)
(*   - the game store: Game documents (models/Game.model) written by the   *)
(*     controllers createGame, updateGameScore and simulateGameEvent       *)
(*     (controllers/gameController.ts);                                    *)
(*   - the Socket.IO rooms: the listeners of server.ts and of              *)
(*     sockets/gameSocket.ts, and the room broadcasts of the controllers;  *)
(*   - NBAApiService (models/Player.model.ts): the roster cache in front   *)
(*     of the SportsData API and the per-day game statistics.              *)
(*                                                                         *)
(* Every `await` of a handler is a scheduling point: the part of a handler *)
(* between two awaits is one action.  A store operation (findById,         *)
(* findByIdAndUpdate) takes effect atomically at the action that performs  *)
(* it; the handler's continuation is the next action of that request.      *)
(***************************************************************************)
EXTENDS Integers, Sequences, FiniteSets, TLC

(* ------------------------------ bounds -------------------------------- *)

\* socket connections (socket ids) the model follows
MaxConns == 2
\* game documents that can be created; an id not yet created is "not found"
MaxGames == 2
\* simulateGameEvent requests
MaxCalls == 2
\* updateGameScore requests
MaxPatches == 2
\* requests of both kinds together, in the specification of the store
MaxRequests == 3
\* games the specification of the store creates
MaxStoreGames == 1
\* requests of both kinds together, in the specification of the whole system
MaxGatewayRequests == 1
\* player documents
MaxPlayers == 1

\* game-action handlers of gameSocket awaiting Game.findById at one time
MaxPending == 1
\* getPlayers / refreshAllPlayers requests
MaxReads == 2
\* needsRefresh requests
MaxChecks == 2
\* getPlayerGameStats requests
MaxStatsCalls == 1
\* calendar days a date range is taken from: day 0, 1, ..
MaxDays == 3
\* players of the upstream roster
MaxRoster == 2
\* clock values followed on each side of the TTL: 0 .. MaxDrift - 1 and
\* cacheTTL .. cacheTTL + MaxDrift
MaxDrift == 2

Conns == 1..MaxConns
GameIds == 1..MaxGames
Calls == 1..MaxCalls
Updates == 1..MaxPatches
PlayerIds == 1..MaxPlayers

(* --------------------------- program constants ------------------------ *)

\* Player.find().limit(10)
PlayerLimit == 10
\* createGame: quarter: 1
InitialQuarter == 1
\* createGame: scores.home / scores.away: 0
InitialScore == 0

\* NBAApiService.cacheTTL: 24 hours in milliseconds
cacheTTL == 1000 * 60 * 60 * 24
\* getDevelopmentPlayers: the ids of developmentPlayers
developmentPlayers == <<20000679, 20000507>>

\* GameSchema.status enum
StatusEnum == {"scheduled", "live", "final"}
\* GameSchema.highlights[].type enum
HighlightTypeEnum == {"score", "turnover", "foul", "timeout"}
\* simulateGameEvent: eventTypes
eventTypes == <<"2pt-made", "2pt-miss", "3pt-made", "3pt-miss", "foul", "turnover">>

(* ------------------------------ documents ----------------------------- *)

\* A Game document: the fields of GameSchema the handlers read or write.
Doc(st, q, t, h, a, hl) ==
  [status |-> st, quarter |-> q, timeRemaining |-> t, home |-> h, away |-> a,
   highlights |-> hl]

\* findById / findByIdAndUpdate resolving to null
NoGame == Doc("none", 0, "", 0, 0, <<>>)

\* A highlight sub-document.
Highlight(t, q, d, p, ty) ==
  [time |-> t, quarter |-> q, description |-> d, player |-> p, type |-> ty]

NoHighlight == Highlight("", 0, "", 0, "none")

\* getEventDescription
getEventDescription(eventType) ==
  CASE eventType = "2pt-made" -> "makes a 2-point shot"
    [] eventType = "2pt-miss" -> "misses a 2-point shot"
    [] eventType = "3pt-made" -> "makes a 3-pointer"
    [] eventType = "3pt-miss" -> "misses a 3-pointer"
    [] eventType = "foul" -> "commits a foul"
    [] eventType = "turnover" -> "turns over the ball"
    [] OTHER -> "makes a play"

\* Schema validation of one pushed highlight (runValidators: true): time,
\* description and type are required (an empty string is not a value),
\* type is one of the enum; the quarter is a number in every input here.
ValidHighlight(h) ==
  /\ h.time # ""
  /\ h.description # ""
  /\ h.type \in HighlightTypeEnum

\* a store that writes the highlight list anew instead of pushing to it
PushHighlight_Overwrite(hls, h) == <<h>>

\* a store that puts the new highlight first
PushHighlight_Prepend(hls, h) == <<h>> \o hls

\* a store that keeps the log at its length: the oldest entry makes room
PushHighlight_DropOldest(hls, h) ==
  IF hls = <<>> THEN <<h>> ELSE Append(Tail(hls), h)

\* $push: { highlights: highlight }
PushHighlight(hls, h) == Append(hls, h)


(* ------------------------------- state -------------------------------- *)

VARIABLES
  games,     \* the games collection: game id -> document, NoGame if absent
  players,   \* the players collection: the ids of the stored players
  sim,       \* simulateGameEvent requests: position and locals of each
  upd,       \* updateGameScore requests: position and locals of each
  conn,      \* socket id -> "new" (not yet connected), "open", "stalled" (connected,
             \* the client reads nothing from the transport), "closed"
  rooms,     \* socket id -> the game rooms it is in (room `game-${id}`)
  joins,     \* gameSocket join-game handlers awaiting Game.findById
  viewers,   \* history: socket id -> rooms it asked to join and not to leave since
  actions,   \* gameSocket game-action handlers awaiting Game.findById
  emitted,   \* the Socket.IO emissions of the last step, in order
  env,       \* NBAApiService: the fields read from the environment at construction
  now,       \* Date.now(), in milliseconds since the service was constructed
  cache,     \* the Player documents written by cachePlayers
  gp,        \* getPlayers requests: position and locals of each
  nr,        \* needsRefresh requests: position and locals of each
  gs         \* getPlayerGameStats requests: position and locals of each

vars == <<games, players, sim, upd, conn, rooms, joins, viewers, actions, emitted,
          env, now, cache, gp, nr, gs>>
gameVars == <<games, players, sim, upd>>
socketVars == <<conn, rooms, joins, viewers, actions>>
cacheVars == <<env, now, cache, gp, nr, gs>>

\* locals of a simulateGameEvent request before it arrives
IdleSim ==
  [pc |-> "idle", id |-> 0, game |-> NoGame, event |-> "", isHome |-> FALSE,
   highlight |-> NoHighlight, homeScoreUpdate |-> 0, awayScoreUpdate |-> 0,
   updatedGame |-> NoGame, code |-> 0]

(* ------------------------- Socket.IO broadcast ------------------------ *)

\* the socket is in the namespace: an emit writes the packet to its transport,
\* whether the client reads it or not, and returns
Connected(c) == conn[c] \in {"open", "stalled"}

\* a broadcast that writes to one socket after the other, in the order of
\* their ids, and waits for each to take the packet: it gets no further than
\* the first socket that stalls
RoomSockets_Awaiting(id) ==
  {c \in Conns : /\ conn[c] = "open" /\ id \in rooms[c]
                 /\ \A d \in Conns : (d < c /\ id \in rooms[d]) => conn[d] # "stalled"}

\* a broadcast that also reaches the sockets whose join of the room is
\* under way
RoomSockets_Pending(id) ==
  {c \in Conns : /\ Connected(c)
                 /\ id \in rooms[c] \/ [conn |-> c, gameId |-> id] \in joins}

\* the sockets a broadcast to room `game-${id}` reaches: the adapter walks
\* the room's socket ids and skips an id that is no longer connected
RoomSockets(id) == {c \in Conns : Connected(c) /\ id \in rooms[c]}

Emission(ev, type, room, dest) ==
  [ev |-> ev, type |-> type, room |-> room, dest |-> dest]

\* io.to(`game-${id}`).emit(ev, {type, ...})
EmitToRoom(ev, type, id) == Emission(ev, type, id, RoomSockets(id))

\* an emission with the fields of its payload the model follows
Carrying(e, payload) ==
  [ev |-> e.ev, type |-> e.type, room |-> e.room, dest |-> e.dest, payload |-> payload]

(* ------------------------- inputs of updateScore ---------------------- *)

\* a body field: absent (undefined) or one of the values S
Opt(S, d) == {[set |-> FALSE, val |-> d]} \cup {[set |-> TRUE, val |-> v] : v \in S}

ScoreInputs == {0}
QuarterInputs == {0, 2}
ClockInputs == {""}
\* a status outside the enum is rejected by the schema validator
StatusInputs == {"live", "final", "paused"}
HighlightInputs ==
  {Highlight("5:23", 2, "Timeout on the floor", 0, "timeout"),
   Highlight("5:23", 2, "Timeout on the floor", 0, "dunk")}

Bodies(scores, quarters, clocks, statuses, hls) ==
  [homeScore : Opt(scores, 0), awayScore : Opt(scores, 0),
   quarter : Opt(quarters, 0), timeRemaining : Opt(clocks, ""),
   status : Opt(statuses, ""), highlight : Opt(hls, NoHighlight)]

AllBodies == Bodies(ScoreInputs, QuarterInputs, ClockInputs, StatusInputs, HighlightInputs)

\* the bodies that set none of the scores and the quarter
PlainBodies == Bodies({}, {}, ClockInputs, StatusInputs, HighlightInputs)

\* the bodies that set the status, a highlight, or both
ShortBodies == Bodies({}, {}, {}, {"live", "final"}, {Highlight("5:23", 2, "Timeout on the floor", 0, "timeout")})

\* locals of an updateGameScore request before it arrives: of the body, the
\* continuation reads the highlight only; of the document, whether it is null
IdleUpd == [pc |-> "idle", id |-> 0, highlight |-> [set |-> FALSE, val |-> NoHighlight],
            found |-> FALSE, code |-> 0]

(* --------------------------- NBAApiService ---------------------------- *)

Reads == 1..MaxReads
Checks == 1..MaxChecks
StatsCalls == 1..MaxStatsCalls
Days == 0..(MaxDays - 1)
RosterIds == 1..MaxRoster

\* the values of Date.now() the model follows
Clock == (0..(MaxDrift - 1)) \cup (cacheTTL..(cacheTTL + MaxDrift))

\* A time zone of the server process, in hours: local time is UTC + before
\* until the UTC hour `at` (counted from day 0, 00:00 UTC), UTC + after from
\* then on.  Date.prototype.getDate / setDate work in this zone.
UTC == [before |-> 0, after |-> 0, at |-> 0]
\* America/New_York with the end of daylight saving time on day 1, 06:00 UTC
\* (as on 2025-11-02 for a range that starts on 2025-11-01)
NewYork == [before |-> 0 - 4, after |-> 0 - 5, at |-> 30]

\* the service before its module is loaded
NoEnv == [set |-> FALSE, apiKey |-> FALSE, useRealAPI |-> FALSE, zone |-> UTC]

\* A Player document written by cachePlayers: the fields the service reads
\* back.  `origin` is history: where the data of the record came from,
\* "upstream" (the SportsData API) or "development" (getDevelopmentPlayers).
PlayerDoc(id, source, t, origin) ==
  [playerId |-> id, dataSource |-> source, lastUpdated |-> t, origin |-> origin]

\* locals of a getPlayers request before it arrives.  History: `consulted`
\* (the request read the cache), `fetches` (its upstream network calls),
\* `failed` (its upstream fetch failed), `hadRoster` (the cache held a roster
\* written from upstream when the fetch failed), `source` (where the data it
\* returned came from: "cache", "upstream" or "development").
IdleGp ==
  [pc |-> "idle", page |-> 0, perPage |-> 0, forceRefresh |-> FALSE,
   cachedPlayers |-> <<>>, apiPlayers |-> <<>>, origin |-> "", i |-> 0,
   consulted |-> FALSE, fetches |-> 0, failed |-> FALSE, hadRoster |-> FALSE,
   data |-> <<>>, source |-> ""]

\* locals of a needsRefresh request before it arrives.  History: `seen` (the
\* lastUpdated of the 'sportsdata' documents when findOne ran), `at` (the
\* clock when the answer was computed).
IdleNr ==
  [pc |-> "idle", found |-> FALSE, lastUpdated |-> 0, seen |-> {}, at |-> 0,
   result |-> FALSE]

\* locals of a getPlayerGameStats request before it arrives.  History: `log`
\* (the day, the outcome and the data of each upstream fetch, in order) and
\* `consulted` (the request read a local store; no step of it does).
IdleGs ==
  [pc |-> "idle", playerId |-> 0, dates |-> <<>>, i |-> 0, allPlayerGames |-> <<>>,
   log |-> <<>>, consulted |-> FALSE, outcome |-> "", data |-> <<>>]

\* the rosters the upstream can answer (PlayersActiveBasic), as player ids
apiRosters == {<<1>>, <<2, 1>>}

(* ------------------------------- Init --------------------------------- *)

Init ==
  /\ games = [g \in GameIds |-> NoGame]
  /\ players = {}
  /\ sim = [r \in Calls |-> IdleSim]
  /\ upd = [u \in Updates |-> IdleUpd]
  /\ conn = [c \in Conns |-> "new"]
  /\ rooms = [c \in Conns |-> {}]
  /\ joins = {}
  /\ viewers = [c \in Conns |-> {}]
  /\ actions = {}
  /\ emitted = <<>>
  /\ env = NoEnv
  /\ now = 0
  /\ cache = {}
  /\ gp = [q \in Reads |-> IdleGp]
  /\ nr = [q \in Checks |-> IdleNr]
  /\ gs = [q \in StatsCalls |-> IdleGs]

(* ---------------------------- game store ------------------------------ *)

\* the requests that have arrived so far; a specification lets a request
\* arrive while they are fewer than its quota
Arrived ==
  Cardinality({r \in Calls : sim[r].pc # "idle"}) +
  Cardinality({u \in Updates : upd[u].pc # "idle"})

\* createGame: the body's homeTeam, awayTeam and date are present (a body
\* without them is answered 400 and changes nothing); the document gets the
\* fixed initial fields whatever else the body carries.
CreateGame(ids) ==
  /\ \E g \in ids :
       /\ games[g] = NoGame
       /\ \A k \in GameIds : k < g => games[k] # NoGame
       /\ games' = [games EXCEPT ![g] =
                      Doc("scheduled", InitialQuarter, "12:00", InitialScore, InitialScore, <<>>)]
  /\ emitted' = <<>>
  /\ UNCHANGED <<players, sim, upd, socketVars, cacheVars>>

\* createPlayer (playerController): Player.create
CreatePlayer(p) ==
  /\ p \notin players
  /\ players' = players \cup {p}
  /\ emitted' = <<>>
  /\ UNCHANGED <<games, sim, upd, socketVars, cacheVars>>

\* deletePlayer (playerController): Player.findByIdAndDelete
DeletePlayer(p) ==
  /\ p \in players
  /\ players' = players \ {p}
  /\ emitted' = <<>>
  /\ UNCHANGED <<games, sim, upd, socketVars, cacheVars>>

\* Player.find().limit(10): the result sets the query can return
FindPlayers ==
  IF Cardinality(players) <= PlayerLimit THEN {players}
  ELSE {S \in SUBSET players : Cardinality(S) = PlayerLimit}

(* -------------------------- simulateGameEvent ------------------------- *)

\* what the handler keeps of a document it was handed: the scalar fields
\* (no controller reads the highlights of a document it holds)
Read(doc) == [doc EXCEPT !.highlights = <<>>]

\* a handler that goes on to its answer of success where it should return
SimAnswered_GoesOn(s, code) ==
  [IdleSim EXCEPT !.pc = "respond", !.id = s.id, !.event = s.event,
                  !.updatedGame = s.game]

\* what is left of a request once it is answered: the answer
SimAnswered(s, code) ==
  [IdleSim EXCEPT !.pc = "done", !.id = s.id, !.code = code, !.event = s.event]

\* the request arrives and Game.findById(id) resolves; a missing game is
\* answered 404, else Player.find is issued.  (The event type, drawn by
\* Math.random here, is first used after Player.find resolves: the model
\* draws it there.)
SimFindGame(r, id, quota) ==
  /\ sim[r].pc = "idle"
  /\ r > 1 => sim[r - 1].pc # "idle"
  /\ Arrived < quota
  /\ IF games[id] = NoGame
     THEN sim' = [sim EXCEPT ![r] = SimAnswered([IdleSim EXCEPT !.id = id], 404)]
     ELSE sim' = [sim EXCEPT ![r] = [IdleSim EXCEPT !.pc = "players", !.id = id,
                                        !.game = Read(games[id])]]
  /\ emitted' = <<>>
  /\ UNCHANGED <<games, players, upd, socketVars, cacheVars>>

\* a made shot that counts for both sides
ScoreUpdate_BothSides(score, randomEvent, thisSide) ==
  IF randomEvent = "2pt-made" THEN score + 2
  ELSE IF randomEvent = "3pt-made" THEN score + 3
  ELSE score

\* the made shots move the chosen side's score
ScoreUpdate(score, randomEvent, thisSide) ==
  IF randomEvent = "2pt-made" /\ thisSide THEN score + 2
  ELSE IF randomEvent = "3pt-made" /\ thisSide THEN score + 3
  ELSE score

\* Player.find resolves: no player is answered 400; else the player and the
\* side are drawn, the highlight and the new scores are computed from the
\* document read by findById, and findByIdAndUpdate is issued
SimFindPlayers(r) ==
  /\ sim[r].pc = "players"
  /\ \E found \in FindPlayers :
       IF found = {}
       THEN sim' = [sim EXCEPT ![r] = SimAnswered(sim[r], 400)]
       ELSE \E i \in DOMAIN eventTypes, randomPlayer \in found, isHomeTeam \in BOOLEAN :
              LET game == sim[r].game
                  randomEvent == eventTypes[i]
              IN sim' = [sim EXCEPT
                   ![r].pc = "update",
                   ![r].event = randomEvent,
                   ![r].isHome = isHomeTeam,
                   ![r].highlight = Highlight(game.timeRemaining, game.quarter,
                                              getEventDescription(randomEvent),
                                              randomPlayer, "score"),
                   ![r].homeScoreUpdate = ScoreUpdate(game.home, randomEvent, isHomeTeam),
                   ![r].awayScoreUpdate = ScoreUpdate(game.away, randomEvent, ~isHomeTeam)]
  /\ emitted' = <<>>
  /\ UNCHANGED <<games, players, upd, socketVars, cacheVars>>

\* an update that sets the scores and leaves the log for later
SimWrite_ScoresOnly(doc, home, away, highlight) ==
  [doc EXCEPT !.home = home, !.away = away]

\* { $set: { scores.home, scores.away }, $push: { highlights } } on a document
SimWrite(doc, home, away, highlight) ==
  [doc EXCEPT !.home = home, !.away = away,
              !.highlights = PushHighlight(doc.highlights, highlight)]

\* the store runs findByIdAndUpdate: the update validators reject a bad
\* highlight (the handler's catch answers 500); else the document, if there,
\* is updated in one atomic step and returned ({ new: true })
SimUpdate(r) ==
  /\ sim[r].pc = "update"
  /\ LET id == sim[r].id IN
       IF ~ValidHighlight(sim[r].highlight)
       THEN /\ sim' = [sim EXCEPT ![r] = SimAnswered(sim[r], 500)]
            /\ UNCHANGED games
       ELSE IF games[id] = NoGame
       THEN /\ sim' = [sim EXCEPT ![r] = [IdleSim EXCEPT !.pc = "respond", !.id = id,
                                             !.event = sim[r].event]]
            /\ UNCHANGED games
       ELSE LET new == SimWrite(games[id], sim[r].homeScoreUpdate,
                                sim[r].awayScoreUpdate, sim[r].highlight)
            IN /\ games' = [games EXCEPT ![id] = new]
               /\ sim' = [sim EXCEPT ![r] = [IdleSim EXCEPT !.pc = "respond", !.id = id,
                                             !.event = sim[r].event,
                                             !.updatedGame = Read(new)]]
  /\ emitted' = <<>>
  /\ UNCHANGED <<players, upd, socketVars, cacheVars>>

\* the continuation: broadcast game-update to the room, answer 200
SimRespond(r) ==
  /\ sim[r].pc = "respond"
  /\ sim' = [sim EXCEPT ![r] = SimAnswered(sim[r], 200)]
  /\ emitted' = IF sim[r].updatedGame # NoGame
                THEN <<Carrying(EmitToRoom("game-update", "simulation-event", sim[r].id),
                                [event |-> sim[r].event, game |-> sim[r].updatedGame])>>
                ELSE <<>>
  /\ UNCHANGED <<games, players, upd, socketVars, cacheVars>>

(* --------------------------- updateGameScore -------------------------- *)

\* a handler that takes the missing document for one it was handed
UpdAnswered_GoesOn(u, code) ==
  [IdleUpd EXCEPT !.pc = "respond", !.id = u.id, !.highlight = u.highlight,
                  !.found = TRUE]

\* what is left of a request once it is answered: the answer
UpdAnswered(u, code) ==
  [IdleUpd EXCEPT !.pc = "done", !.id = u.id, !.code = code, !.highlight = u.highlight]

\* update validators over the fields the body sets
ValidBody(body) ==
  /\ body.status.set => body.status.val \in StatusEnum
  /\ body.highlight.set => ValidHighlight(body.highlight.val)

\* an update object built with `if (field)`: a 0 and an empty string are
\* taken for fields the body does not have
ScoreWrite_Truthy(doc, body) ==
  [doc EXCEPT
     !.home = IF body.homeScore.set /\ body.homeScore.val # 0 THEN body.homeScore.val ELSE @,
     !.away = IF body.awayScore.set /\ body.awayScore.val # 0 THEN body.awayScore.val ELSE @,
     !.quarter = IF body.quarter.set /\ body.quarter.val # 0 THEN body.quarter.val ELSE @,
     !.timeRemaining = IF body.timeRemaining.set /\ body.timeRemaining.val # ""
                       THEN body.timeRemaining.val ELSE @,
     !.status = IF body.status.set THEN body.status.val ELSE @,
     !.highlights = IF body.highlight.set
                    THEN PushHighlight(@, body.highlight.val) ELSE @]

\* the update object built from the body, applied to a document
ScoreWrite(doc, body) ==
  [doc EXCEPT
     !.home = IF body.homeScore.set THEN body.homeScore.val ELSE @,
     !.away = IF body.awayScore.set THEN body.awayScore.val ELSE @,
     !.quarter = IF body.quarter.set THEN body.quarter.val ELSE @,
     !.timeRemaining = IF body.timeRemaining.set THEN body.timeRemaining.val ELSE @,
     !.status = IF body.status.set THEN body.status.val ELSE @,
     !.highlights = IF body.highlight.set
                    THEN PushHighlight(@, body.highlight.val) ELSE @]

\* the request arrives and the store runs findByIdAndUpdate: a body the
\* validators reject is answered 400; else the document, if there, is
\* updated in one atomic step and returned
UpdateScore(u, id, body, quota) ==
  /\ upd[u].pc = "idle"
  /\ u > 1 => upd[u - 1].pc # "idle"
  /\ Arrived < quota
  /\ IF ~ValidBody(body)
     THEN /\ upd' = [upd EXCEPT ![u] = UpdAnswered([IdleUpd EXCEPT !.id = id, !.highlight = body.highlight], 400)]
          /\ UNCHANGED games
     ELSE IF games[id] = NoGame
     THEN /\ upd' = [upd EXCEPT ![u] = [IdleUpd EXCEPT !.pc = "respond", !.id = id,
                                           !.highlight = body.highlight]]
          /\ UNCHANGED games
     ELSE LET new == ScoreWrite(games[id], body)
          IN /\ games' = [games EXCEPT ![id] = new]
             /\ upd' = [upd EXCEPT ![u] = [IdleUpd EXCEPT !.pc = "respond", !.id = id,
                                              !.highlight = body.highlight, !.found = TRUE]]
  /\ emitted' = <<>>
  /\ UNCHANGED <<players, sim, socketVars, cacheVars>>

\* a continuation that publishes the highlight ahead of the update
UpdRespond_HighlightFirst(u) ==
  /\ upd[u].pc = "respond"
  /\ IF ~upd[u].found
     THEN /\ upd' = [upd EXCEPT ![u] = UpdAnswered(upd[u], 404)]
          /\ emitted' = <<>>
     ELSE /\ upd' = [upd EXCEPT ![u] = UpdAnswered(upd[u], 200)]
          /\ emitted' =
               (IF upd[u].highlight.set
                THEN <<Carrying(EmitToRoom("game-highlight", "new-highlight", upd[u].id),
                                [highlight |-> upd[u].highlight.val])>>
                ELSE <<>>) \o
               <<EmitToRoom("game-update", "score-update", upd[u].id)>>
  /\ UNCHANGED <<games, players, sim, socketVars, cacheVars>>

\* the continuation: no document is answered 404; else game-update and, for
\* a body with a highlight, game-highlight with that highlight go to the
\* room; answer 200
UpdRespond(u) ==
  /\ upd[u].pc = "respond"
  /\ IF ~upd[u].found
     THEN /\ upd' = [upd EXCEPT ![u] = UpdAnswered(upd[u], 404)]
          /\ emitted' = <<>>
     ELSE /\ upd' = [upd EXCEPT ![u] = UpdAnswered(upd[u], 200)]
          /\ emitted' =
               <<EmitToRoom("game-update", "score-update", upd[u].id)>> \o
               (IF upd[u].highlight.set
                THEN <<Carrying(EmitToRoom("game-highlight", "new-highlight", upd[u].id),
                                [highlight |-> upd[u].highlight.val])>>
                ELSE <<>>)
  /\ UNCHANGED <<games, players, sim, socketVars, cacheVars>>

(* ------------------------- Socket.IO listeners ------------------------ *)

(* server.ts registers join-game and leave-game listeners on every socket; *)
(* gameSocket.ts has listeners of the same events, registered by           *)
(* initializeSocketIO.  The model has the listeners of both files, each as *)
(* an action of its own.  A room is named by its game id; the socket's own *)
(* room (its id) is not modelled, no listener joins or leaves it.          *)

\* socket.join(`game-${id}`) on the socket's rooms
Join(rs, id) == rs \cup {id}

\* a leave that toggles the membership
Leave_Toggle(rs, id) == IF id \in rs THEN rs \ {id} ELSE rs \cup {id}

\* socket.leave(`game-${id}`) on the socket's rooms
Leave(rs, id) == rs \ {id}

\* a join that leaves no room
LeavePrevious_None(rs) == rs

\* join-game (gameSocket): socket.leave of every room that starts with
\* 'game-'; what is left of the socket's game rooms
LeavePrevious(rs) == {room \in rs : FALSE}

\* getGameRoomClients: the size of the adapter's room, 0 if there is none
getGameRoomClients(id) == Cardinality({c \in Conns : id \in rooms[c]})

\* an answer that goes to the whole room next to the socket
EmitToSocket_Room(ev, id, c) ==
  Emission(ev, "", id, RoomSockets(id) \cup {d \in {c} : Connected(d)})

\* socket.emit(ev): to this socket, if it is still connected
EmitToSocket(ev, id, c) == Emission(ev, "", id, {d \in {c} : Connected(d)})

\* a broadcast that does not leave the sender out
EmitToOthers_Echo(ev, id, c) == Emission(ev, "", id, RoomSockets(id) \cup {c})

\* socket.to(`game-${id}`).emit(ev): to the room but for this socket
EmitToOthers(ev, id, c) == Emission(ev, "", id, RoomSockets(id) \ {c})

\* the emissions of a loop over a set of rooms, one room after the other
RECURSIVE ForEachRoom(_, _, _)
ForEachRoom(rs, ev, c) ==
  IF rs = {} THEN <<>>
  ELSE LET room == CHOOSE x \in rs : \A y \in rs : x <= y
       IN <<EmitToOthers(ev, room, c)>> \o ForEachRoom(rs \ {room}, ev, c)

\* io.on('connection') of server.ts and of initializeSocketIO: the listeners
\* are registered and the socket is sent 'welcome'
Connect(c) ==
  /\ conn[c] = "new"
  /\ c > 1 => conn[c - 1] # "new"
  /\ conn' = [conn EXCEPT ![c] = "open"]
  /\ emitted' = <<Emission("welcome", "", 0, {c})>>
  /\ UNCHANGED <<gameVars, cacheVars, actions, rooms, joins, viewers>>

\* the client stops reading from its transport; the socket stays connected
\* until the heartbeat closes it
Stall(c) ==
  /\ conn[c] = "open"
  /\ conn' = [conn EXCEPT ![c] = "stalled"]
  /\ emitted' = <<>>
  /\ UNCHANGED <<gameVars, cacheVars, actions, rooms, joins, viewers>>

\* the transport closes: Socket.IO takes the socket out of all its rooms and
\* then runs the 'disconnect' listeners; the listener of gameSocket walks
\* socket.rooms as it is by then
Disconnect(c) ==
  /\ Connected(c)
  /\ conn' = [conn EXCEPT ![c] = "closed"]
  /\ rooms' = [rooms EXCEPT ![c] = {}]
  /\ viewers' = [viewers EXCEPT ![c] = {}]
  /\ emitted' = ForEachRoom(rooms'[c], "user-left", c)
  /\ UNCHANGED <<gameVars, cacheVars, actions, joins>>

\* join-game, the listener of server.ts
ServerJoinGame(c, id) ==
  /\ conn[c] = "open"
  /\ rooms' = [rooms EXCEPT ![c] = Join(@, id)]
  /\ viewers' = [viewers EXCEPT ![c] = @ \cup {id}]
  /\ emitted' = <<>>
  /\ UNCHANGED <<gameVars, cacheVars, actions, conn, joins>>

\* leave-game, the listener of server.ts
ServerLeaveGame(c, id) ==
  /\ conn[c] = "open"
  /\ rooms' = [rooms EXCEPT ![c] = Leave(@, id)]
  /\ viewers' = [viewers EXCEPT ![c] = @ \ {id}]
  /\ emitted' = <<>>
  /\ UNCHANGED <<gameVars, cacheVars, actions, conn, joins>>

\* a listener that leaves the previous game rooms before it looks the game
\* up
JoinGame_LeavesFirst(c, id) ==
  /\ conn[c] = "open"
  /\ [conn |-> c, gameId |-> id] \notin joins
  /\ rooms' = [rooms EXCEPT ![c] = LeavePrevious(@)]
  /\ \/ /\ games[id] # NoGame
        /\ emitted' = <<>>
        /\ joins' = joins \cup {[conn |-> c, gameId |-> id]}
        /\ viewers' = [viewers EXCEPT ![c] = {id}]
     \/ /\ emitted' = <<EmitToSocket("error", id, c)>>
        /\ UNCHANGED <<joins, viewers>>
  /\ UNCHANGED <<gameVars, cacheVars, actions, conn>>

\* join-game, the listener of gameSocket: the request arrives and
\* Game.findById settles; a missing game is answered with 'error' ('Game not
\* found'), a lookup that rejects is caught and answered with 'error'
\* ('Failed to join game'), else the handler goes on once the document is
\* handed to it
JoinGame(c, id) ==
  /\ conn[c] = "open"
  /\ [conn |-> c, gameId |-> id] \notin joins
  /\ \/ /\ games[id] # NoGame
        /\ emitted' = <<>>
        /\ joins' = joins \cup {[conn |-> c, gameId |-> id]}
        /\ viewers' = [viewers EXCEPT ![c] = {id}]
     \/ /\ emitted' = <<EmitToSocket("error", id, c)>>
        /\ UNCHANGED <<joins, viewers>>
  /\ UNCHANGED <<gameVars, cacheVars, actions, conn, rooms>>

\* the continuation: leave the previous game rooms, join the new one, send
\* 'game-joined' to the socket and 'user-joined' to the others of the room
JoinGameDone(c, id) ==
  /\ [conn |-> c, gameId |-> id] \in joins
  /\ joins' = joins \ {[conn |-> c, gameId |-> id]}
  /\ rooms' = [rooms EXCEPT ![c] = Join(LeavePrevious(@), id)]
  /\ emitted' = <<EmitToSocket("game-joined", id, c), EmitToOthers("user-joined", id, c)>>
  /\ UNCHANGED <<gameVars, cacheVars, actions, conn, viewers>>

\* leave-game, the listener of gameSocket
LeaveGame(c, id) ==
  /\ conn[c] = "open"
  /\ rooms' = [rooms EXCEPT ![c] = Leave(@, id)]
  /\ viewers' = [viewers EXCEPT ![c] = @ \ {id}]
  /\ emitted' = <<EmitToSocket("game-left", id, c)>>
  /\ UNCHANGED <<gameVars, cacheVars, actions, conn, joins>>

\* the payload of a game-action or send-message event: an object with a
\* game id (and, for game-action, an action type), or no object at all
Payload(id, actionType) == [ok |-> TRUE, gameId |-> id, actionType |-> actionType]
NoPayload == [ok |-> FALSE, gameId |-> 0, actionType |-> ""]

\* the action types clients send: the two of the switch and another one
ActionTypes == {"simulate-event", "request-stats", "replay"}

\* the payload of a send-message event: the game id, the text and the name,
\* and whatever else the client puts in it, as a timestamp of its own
Chat(id, message, username) ==
  [ok |-> TRUE, gameId |-> id, actionType |-> "", message |-> message, username |-> username,
   timestamp |-> "client"]

\* a listener that forwards what the client sent, its timestamp included
ChatPayload_Forwarded(c, data) ==
  [username |-> data.username, message |-> data.message, timestamp |-> data.timestamp,
   userId |-> c]

\* the payload of new-message: the name and the text of the event, the time
\* of the server (new Date().toISOString()) and the id of the socket
ChatPayload(c, data) ==
  [username |-> data.username, message |-> data.message, timestamp |-> "server",
   userId |-> c]

\* the texts and the names clients send
MessageTexts == {"Defense!", ""}
Usernames == {"Ann"}

ActionInputs == {NoPayload} \cup {Payload(id, t) : id \in GameIds, t \in ActionTypes}
MessageInputs ==
  {NoPayload} \cup {Chat(id, m, n) : id \in GameIds, m \in MessageTexts, n \in Usernames}

\* the messages of one text
PlainMessages == {data \in MessageInputs : data.ok => data.message = ""}

\* game-action (gameSocket): the request arrives.  Destructuring a missing
\* payload throws inside the try, and the catch sends 'error'; a socket
\* that is not in the room, a game Game.findById does not find and a lookup
\* that rejects (caught) are answered with 'error'; else the handler goes
\* on once the document is handed to it
GameAction(c, data) ==
  /\ conn[c] = "open"
  /\ \/ /\ data.ok /\ data.gameId \in rooms[c] /\ games[data.gameId] # NoGame
        /\ Cardinality(actions) < MaxPending
        /\ actions' = actions \cup {[conn |-> c, gameId |-> data.gameId,
                                     actionType |-> data.actionType]}
        /\ emitted' = <<>>
     \/ /\ emitted' = <<EmitToSocket("error", data.gameId, c)>>
        /\ UNCHANGED actions
  /\ UNCHANGED <<gameVars, cacheVars, conn, rooms, joins, viewers>>

\* the continuation, the switch on the action type: 'simulate-event' sends
\* 'simulation-event' to the room, 'request-stats' sends 'game-stats' to the
\* socket, any other type 'error' to the socket
GameActionDone(c, id, actionType) ==
  /\ [conn |-> c, gameId |-> id, actionType |-> actionType] \in actions
  /\ actions' = actions \ {[conn |-> c, gameId |-> id, actionType |-> actionType]}
  /\ emitted' =
       IF actionType = "simulate-event"
       THEN <<EmitToRoom("simulation-event", "manual-simulation", id)>>
       ELSE IF actionType = "request-stats"
       THEN <<EmitToSocket("game-stats", id, c)>>
       ELSE <<EmitToSocket("error", id, c)>>
  /\ UNCHANGED <<gameVars, cacheVars, conn, rooms, joins, viewers>>

\* send-message (gameSocket): 'new-message' goes to the others of the room.
\* The listener has no try: destructuring a missing payload throws out of
\* it, no handler of uncaught exceptions is installed, and the process
\* exits: every socket is closed and none can connect from then on
SendMessage(c, data) ==
  /\ conn[c] = "open"
  /\ IF data.ok
     THEN /\ emitted' = <<Carrying(EmitToOthers("new-message", data.gameId, c),
                                   ChatPayload(c, data))>>
          /\ UNCHANGED <<conn, rooms, joins, viewers, actions>>
     ELSE /\ conn' = [d \in Conns |-> "closed"]
          /\ rooms' = [d \in Conns |-> {}]
          /\ viewers' = [d \in Conns |-> {}]
          /\ joins' = {}
          /\ actions' = {}
          /\ emitted' = <<>>
  /\ UNCHANGED <<gameVars, cacheVars>>

(* ------------------- NBAApiService: construction ---------------------- *)

\* the module is loaded: apiKey is SPORTSDATA_API_KEY or '' (given or not),
\* useRealAPI is USE_REAL_API !== 'false'; the process runs in a time zone
Boot(apiKey, useRealAPI, zone) ==
  /\ ~env.set
  /\ env' = [set |-> TRUE, apiKey |-> apiKey, useRealAPI |-> useRealAPI, zone |-> zone]
  /\ emitted' = <<>>
  /\ UNCHANGED <<gameVars, socketVars, now, cache, gp, nr, gs>>

\* time passes
Tick(t) ==
  /\ env.set
  /\ t > now
  /\ now' = t
  /\ emitted' = <<>>
  /\ UNCHANGED <<gameVars, socketVars, env, cache, gp, nr, gs>>

(* ------------------------ NBAApiService.getPlayers --------------------- *)

\* array.slice(start, end)
Slice(seq, start, end) ==
  SubSeq(seq, start + 1, IF end < Len(seq) THEN end ELSE Len(seq))

\* the ids of a set of documents in the order of .sort({ lastName: 1 }): the
\* players of the model are named in the order of their ids
RECURSIVE SortByLastName(_)
SortByLastName(docs) ==
  IF docs = {} THEN <<>>
  ELSE LET first == CHOOSE d \in docs : \A e \in docs : d.playerId <= e.playerId
       IN <<first.playerId>> \o SortByLastName(docs \ {first})

\* a read that takes a record for stale from the moment its age is the TTL
getCachedPlayers_Strict(docs, t, page, perPage) ==
  LET cacheCutoff == t - cacheTTL
      fresh == {d \in docs : d.dataSource = "sportsdata" /\ d.lastUpdated > cacheCutoff}
  IN Slice(SortByLastName(fresh), page * perPage, page * perPage + perPage)

\* getCachedPlayers: Player.find({ dataSource: 'sportsdata', lastUpdated:
\* { $gte: cacheCutoff } }).sort().skip(page * perPage).limit(perPage)
getCachedPlayers(docs, t, page, perPage) ==
  LET cacheCutoff == t - cacheTTL
      fresh == {d \in docs : d.dataSource = "sportsdata" /\ d.lastUpdated >= cacheCutoff}
  IN Slice(SortByLastName(fresh), page * perPage, page * perPage + perPage)

\* getDevelopmentPlayers(page, perPage).data
getDevelopmentPlayers(page, perPage) ==
  Slice(developmentPlayers, page * perPage, page * perPage + perPage)

\* what is left of a request once it is answered: its arguments, the answer
\* and the history
GpAnswered(g, data, source) ==
  [IdleGp EXCEPT !.pc = "done", !.page = g.page, !.perPage = g.perPage,
                 !.forceRefresh = g.forceRefresh, !.consulted = g.consulted,
                 !.fetches = g.fetches, !.failed = g.failed, !.hadRoster = g.hadRoster,
                 !.data = data, !.source = source]

\* fetchFromSportsDataAPI is called: without a key it resolves to the
\* development players; else axios.get is issued
GpFetch(g) ==
  IF ~env.apiKey
  THEN [g EXCEPT !.pc = "write", !.apiPlayers = getDevelopmentPlayers(0, 25),
                 !.origin = "development", !.i = 1]
  ELSE [g EXCEPT !.pc = "fetch", !.fetches = @ + 1]

\* the request arrives: the development mode answers the development
\* players; a forced refresh goes to the fetch; else the cache is read
GetPlayers(q, page, perPage, forceRefresh) ==
  /\ env.set
  /\ gp[q].pc = "idle"
  /\ q > 1 => gp[q - 1].pc # "idle"
  /\ LET g == [IdleGp EXCEPT !.page = page, !.perPage = perPage,
                             !.forceRefresh = forceRefresh]
     IN gp' = [gp EXCEPT ![q] =
          IF ~env.useRealAPI /\ ~forceRefresh
          THEN GpAnswered(g, getDevelopmentPlayers(page, perPage), "development")
          ELSE IF ~forceRefresh
          THEN [g EXCEPT !.pc = "cached", !.consulted = TRUE,
                         !.cachedPlayers = getCachedPlayers(cache, now, page, perPage)]
          ELSE GpFetch(g)]
  /\ emitted' = <<>>
  /\ UNCHANGED <<gameVars, socketVars, env, now, cache, nr, gs>>

\* refreshAllPlayers: getPlayers(0, 100, true)
refreshAllPlayers(q) == GetPlayers(q, 0, 100, TRUE)

\* Player.find has resolved: a page with players is returned; an empty one
\* goes to the fetch
GpCached(q) ==
  /\ gp[q].pc = "cached"
  /\ gp' = [gp EXCEPT ![q] =
       IF Len(gp[q].cachedPlayers) > 0
       THEN GpAnswered(gp[q], gp[q].cachedPlayers, "cache")
       ELSE GpFetch(gp[q])]
  /\ emitted' = <<>>
  /\ UNCHANGED <<gameVars, socketVars, env, now, cache, nr, gs>>

\* the upstream answers the roster, which cachePlayers goes on to store, or
\* fails: the catch of getPlayers returns the development players
GpResponse(q) ==
  /\ gp[q].pc = "fetch"
  /\ \/ \E roster \in apiRosters :
          gp' = [gp EXCEPT ![q] = [gp[q] EXCEPT !.pc = "write", !.apiPlayers = roster,
                                                !.origin = "upstream", !.i = 1]]
     \/ LET g == [gp[q] EXCEPT
                    !.failed = TRUE,
                    !.hadRoster = \E d \in cache : d.dataSource = "sportsdata" /\
                                                    d.origin = "upstream"]
        IN gp' = [gp EXCEPT ![q] =
             GpAnswered(g, getDevelopmentPlayers(g.page, g.perPage), "development")]
  /\ emitted' = <<>>
  /\ UNCHANGED <<gameVars, socketVars, env, now, cache, nr, gs>>

\* a write that inserts a document whatever the collection holds
Upsert_Insert(docs, doc) == docs \cup {doc}

\* Player.findOneAndUpdate({ playerId }, {...}, { upsert: true }): the
\* document of the player is replaced, or inserted if there is none
Upsert(docs, doc) ==
  {d \in docs : d.playerId # doc.playerId} \cup {doc}

\* cachePlayers: one findOneAndUpdate of its loop; after the last one the
\* page asked for is returned
GpWrite(q) ==
  /\ gp[q].pc = "write"
  /\ LET g == gp[q]
         doc == PlayerDoc(g.apiPlayers[g.i], "sportsdata", now, g.origin)
     IN /\ cache' = Upsert(cache, doc)
        /\ gp' = [gp EXCEPT ![q] =
             IF g.i = Len(g.apiPlayers)
             THEN GpAnswered(g, Slice(g.apiPlayers, g.page * g.perPage,
                                      g.page * g.perPage + g.perPage), g.origin)
             ELSE [g EXCEPT !.i = @ + 1]]
  /\ emitted' = <<>>
  /\ UNCHANGED <<gameVars, socketVars, env, now, nr, gs>>

(* ----------------------- NBAApiService.needsRefresh -------------------- *)

\* a query that sorts the other way: the oldest document comes first
latestUpdate_Oldest(docs) ==
  CHOOSE d \in docs : \A e \in docs : d.lastUpdated <= e.lastUpdated

\* .sort({ lastUpdated: -1 }) then findOne: a document none is newer than
latestUpdate(docs) ==
  CHOOSE d \in docs : \A e \in docs : d.lastUpdated >= e.lastUpdated

\* the request arrives and Player.findOne({ dataSource: 'sportsdata' }) runs
NrRead(q) ==
  /\ env.set
  /\ nr[q].pc = "idle"
  /\ q > 1 => nr[q - 1].pc # "idle"
  /\ LET docs == {d \in cache : d.dataSource = "sportsdata"}
     IN nr' = [nr EXCEPT ![q] =
          [IdleNr EXCEPT !.pc = "read", !.found = docs # {},
                         !.lastUpdated = IF docs = {} THEN 0 ELSE latestUpdate(docs).lastUpdated,
                         !.seen = {d.lastUpdated : d \in docs}]]
  /\ emitted' = <<>>
  /\ UNCHANGED <<gameVars, socketVars, env, now, cache, gp, gs>>

\* the continuation: no document is true; else the age against the TTL
NrAnswer(q) ==
  /\ nr[q].pc = "read"
  /\ nr' = [nr EXCEPT ![q] =
       [IdleNr EXCEPT !.pc = "done", !.seen = nr[q].seen, !.at = now,
                      !.result = IF ~nr[q].found THEN TRUE
                                 ELSE now - nr[q].lastUpdated > cacheTTL]]
  /\ emitted' = <<>>
  /\ UNCHANGED <<gameVars, socketVars, env, now, cache, gp, gs>>

(* ------------------- NBAApiService.getPlayerGameStats ------------------ *)

(* A date string 'YYYY-MM-DD' is the number of its day, counted from day 0; *)
(* a Date is its time value in hours since day 0, 00:00 UTC.                *)

\* new Date('YYYY-MM-DD'): midnight UTC of the day
NewDate(day) == 24 * day

\* date.toISOString().split('T')[0]: the UTC day of the time value
ISODate(h) == h \div 24

\* the offset of local time from UTC at a time value
Offset(zone, h) == IF h < zone.at THEN zone.before ELSE zone.after

\* current.setDate(current.getDate() + 1): the same local wall-clock time on
\* the next local day, as a time value
SetNextDate(zone, h) ==
  LET wall == h + Offset(zone, h) + 24
  IN IF wall - zone.before < zone.at THEN wall - zone.before ELSE wall - zone.after

\* the while loop of getDatesInRange
RECURSIVE DatesFrom(_, _, _)
DatesFrom(zone, current, end) ==
  IF current <= end
  THEN <<ISODate(current)>> \o DatesFrom(zone, SetNextDate(zone, current), end)
  ELSE <<>>

getDatesInRange(zone, startDate, endDate) ==
  DatesFrom(zone, NewDate(startDate), NewDate(endDate))

\* a record of PlayerGameStatsByDate
Stat(p, d) == [PlayerID |-> p, Day |-> d]

\* the bodies the upstream can answer for a day
StatsResponses(d) == {<<>>, <<Stat(1, d)>>, <<Stat(2, d), Stat(1, d)>>}

\* the answers to one axios.get: an error (a timeout, a status outside 2xx)
\* or a body
StatsAnswers(d) ==
  {[date |-> d, ok |-> FALSE, data |-> <<>>]} \cup
  {[date |-> d, ok |-> TRUE, data |-> b] : b \in StatsResponses(d)}

\* a filter that keeps the records of every player
playerGamesOnDate_All(data, playerId) == data

\* response.data.filter(game => game.PlayerID === params.playerId)
playerGamesOnDate(data, playerId) ==
  SelectSeq(data, LAMBDA game : game.PlayerID = playerId)

\* a check that lets an empty result through
NoGameData_Never(allPlayerGames) == FALSE

\* allPlayerGames.length === 0
NoGameData(allPlayerGames) == Len(allPlayerGames) = 0

\* the record returned for a game: of its fields, the player and the date
GameStat(game) == [player |-> game.PlayerID, date |-> game.Day]

\* allPlayerGames.map(...)
GameStats(allPlayerGames) ==
  [k \in DOMAIN allPlayerGames |-> GameStat(allPlayerGames[k])]

\* what is left of a request once it is answered: the answer and the history
StatsAnswered(g, outcome, all) ==
  [IdleGs EXCEPT !.pc = "done", !.playerId = g.playerId, !.dates = g.dates,
                 !.log = g.log, !.outcome = outcome, !.data = GameStats(all)]

\* the end of the call: no game throws 'No game data found', else the data
StatsReturn(g, all) ==
  IF NoGameData(all) THEN StatsAnswered(g, "no-data", <<>>)
  ELSE StatsAnswered(g, "data", all)

\* the request arrives with startDate and endDate given: without the real
\* API or a key it throws 'Real API not available'; else the dates of the
\* range are listed and the first day is asked for
GetPlayerGameStats(q, playerId, startDate, endDate) ==
  /\ env.set
  /\ gs[q].pc = "idle"
  /\ LET g == [IdleGs EXCEPT !.playerId = playerId,
                             !.dates = getDatesInRange(env.zone, startDate, endDate)]
     IN gs' = [gs EXCEPT ![q] =
          IF ~env.useRealAPI \/ ~env.apiKey THEN StatsAnswered([g EXCEPT !.dates = <<>>], "not-available", <<>>)
          ELSE IF g.dates = <<>> THEN StatsReturn(g, <<>>)
          ELSE [g EXCEPT !.pc = "fetch", !.i = 1]]
  /\ emitted' = <<>>
  /\ UNCHANGED <<gameVars, socketVars, env, now, cache, gp, nr>>

\* the upstream answers for the day asked: a body adds the player's records,
\* an error is logged and the loop goes on; after the last day the call ends
StatsResponse(q) ==
  /\ gs[q].pc = "fetch"
  /\ \E answer \in StatsAnswers(gs[q].dates[gs[q].i]) :
       LET all == IF answer.ok
                  THEN gs[q].allPlayerGames \o playerGamesOnDate(answer.data, gs[q].playerId)
                  ELSE gs[q].allPlayerGames
           g == [gs[q] EXCEPT !.log = Append(@, answer)]
       IN gs' = [gs EXCEPT ![q] =
            IF g.i = Len(g.dates) THEN StatsReturn(g, all)
            ELSE [g EXCEPT !.i = @ + 1, !.allPlayerGames = all]]
  /\ emitted' = <<>>
  /\ UNCHANGED <<gameVars, socketVars, env, now, cache, gp, nr>>

(* --------------------------- specifications --------------------------- *)

StoreIds == 1..MaxStoreGames

\* the game store and its three controllers, with no socket connected
NextGame ==
  \/ CreateGame(StoreIds)
  \/ \E p \in PlayerIds : CreatePlayer(p)
  \/ \E p \in PlayerIds : DeletePlayer(p)
  \/ \E r \in Calls, id \in StoreIds : SimFindGame(r, id, MaxRequests)
  \/ \E r \in Calls : SimFindPlayers(r)
  \/ \E r \in Calls : SimUpdate(r)
  \/ \E r \in Calls : SimRespond(r)
  \/ \E u \in Updates, id \in StoreIds, body \in PlainBodies :
       UpdateScore(u, id, body, MaxRequests)
  \/ \E u \in Updates : UpdRespond(u)

SpecGame == Init /\ [][NextGame]_vars

\* updateGameScore alone, over all its bodies
NextAdmin ==
  \/ CreateGame(GameIds)
  \/ \E u \in Updates, id \in GameIds, body \in AllBodies :
       UpdateScore(u, id, body, MaxPatches)
  \/ \E u \in Updates : UpdRespond(u)

SpecAdmin == Init /\ [][NextAdmin]_vars

\* the sockets and their listeners, over the games that exist
NextSockets ==
  \/ \E c \in Conns : Connect(c)
  \/ \E c \in Conns : Disconnect(c)
  \/ \E c \in Conns, id \in GameIds : ServerJoinGame(c, id)
  \/ \E c \in Conns, id \in GameIds : ServerLeaveGame(c, id)
  \/ \E c \in Conns, id \in GameIds : JoinGame(c, id)
  \/ \E c \in Conns, id \in GameIds : JoinGameDone(c, id)
  \/ \E c \in Conns, id \in GameIds : LeaveGame(c, id)
  \/ CreateGame(GameIds)

SpecSockets == Init /\ [][NextSockets]_vars

\* the sockets together with updateGameScore, which publishes to the rooms
\* through emitGameUpdate and emitGameHighlight
Next ==
  \/ \E c \in Conns : Connect(c)
  \/ \E c \in Conns : Disconnect(c)
  \/ \E c \in Conns, id \in GameIds : ServerJoinGame(c, id)
  \/ \E c \in Conns, id \in GameIds : ServerLeaveGame(c, id)
  \/ \E c \in Conns, id \in GameIds : JoinGame(c, id)
  \/ \E c \in Conns, id \in GameIds : JoinGameDone(c, id)
  \/ \E c \in Conns, id \in GameIds : LeaveGame(c, id)
  \/ CreateGame(GameIds)
  \/ \E u \in Updates, id \in GameIds, body \in ShortBodies :
       UpdateScore(u, id, body, MaxGatewayRequests)
  \/ \E u \in Updates : UpdRespond(u)

Spec == Init /\ [][Next]_vars

\* the listeners of gameSocket over the games that exist
NextGateway ==
  \/ \E c \in Conns : Connect(c)
  \/ \E c \in Conns : Disconnect(c)
  \/ \E c \in Conns, id \in GameIds : JoinGame(c, id)
  \/ \E c \in Conns, id \in GameIds : JoinGameDone(c, id)
  \/ \E c \in Conns, id \in GameIds : LeaveGame(c, id)
  \/ \E c \in Conns, data \in ActionInputs : GameAction(c, data)
  \/ \E c \in Conns, id \in GameIds, actionType \in ActionTypes :
       GameActionDone(c, id, actionType)
  \/ \E c \in Conns, data \in PlainMessages : SendMessage(c, data)
  \/ CreateGame(GameIds)

SpecGateway == Init /\ [][NextGateway]_vars

\* the chat of gameSocket next to its rooms
NextChat ==
  \/ \E c \in Conns : Connect(c)
  \/ \E c \in Conns : Disconnect(c)
  \/ \E c \in Conns, id \in GameIds : JoinGame(c, id)
  \/ \E c \in Conns, id \in GameIds : JoinGameDone(c, id)
  \/ \E c \in Conns, id \in GameIds : LeaveGame(c, id)
  \/ \E c \in Conns, data \in MessageInputs : SendMessage(c, data)
  \/ CreateGame(GameIds)

SpecChat == Init /\ [][NextChat]_vars

\* join-game and game-action of gameSocket while one game exists and the
\* other does not
NextErrors ==
  \/ \E c \in Conns : Connect(c)
  \/ \E c \in Conns : Disconnect(c)
  \/ \E c \in Conns, id \in GameIds : JoinGame(c, id)
  \/ \E c \in Conns, id \in GameIds : JoinGameDone(c, id)
  \/ \E c \in Conns, data \in ActionInputs : GameAction(c, data)
  \/ \E c \in Conns, id \in GameIds, actionType \in ActionTypes :
       GameActionDone(c, id, actionType)
  \/ CreateGame(StoreIds)

SpecErrors == Init /\ [][NextErrors]_vars

\* the rooms of gameSocket alone: join-game, leave-game and disconnect
NextRooms ==
  \/ \E c \in Conns : Connect(c)
  \/ \E c \in Conns : Disconnect(c)
  \/ \E c \in Conns, id \in GameIds : JoinGame(c, id)
  \/ \E c \in Conns, id \in GameIds : JoinGameDone(c, id)
  \/ \E c \in Conns, id \in GameIds : LeaveGame(c, id)
  \/ CreateGame(GameIds)

SpecRooms == Init /\ [][NextRooms]_vars

\* the two controllers that publish, one request on one game, next to the
\* rooms of gameSocket and to clients that stall
NextPublish ==
  \/ \E c \in Conns : Connect(c)
  \/ \E c \in Conns : Stall(c)
  \/ \E c \in Conns : Disconnect(c)
  \/ \E c \in Conns, id \in GameIds : JoinGame(c, id)
  \/ \E c \in Conns, id \in GameIds : JoinGameDone(c, id)
  \/ \E c \in Conns, id \in GameIds : LeaveGame(c, id)
  \/ CreateGame(StoreIds)
  \/ \E p \in PlayerIds : CreatePlayer(p)
  \/ \E r \in Calls, id \in StoreIds : SimFindGame(r, id, MaxGatewayRequests)
  \/ \E r \in Calls : SimFindPlayers(r)
  \/ \E r \in Calls : SimUpdate(r)
  \/ \E r \in Calls : SimRespond(r)
  \/ \E u \in Updates, id \in StoreIds, body \in ShortBodies :
       UpdateScore(u, id, body, MaxGatewayRequests)
  \/ \E u \in Updates : UpdRespond(u)

SpecPublish == Init /\ [][NextPublish]_vars

\* the fan-out of updateGameScore over the rooms of two games, with clients
\* that stall or disconnect
NextFanout ==
  \/ \E c \in Conns : Connect(c)
  \/ \E c \in Conns : Stall(c)
  \/ \E c \in Conns : Disconnect(c)
  \/ \E c \in Conns, id \in GameIds : JoinGame(c, id)
  \/ \E c \in Conns, id \in GameIds : JoinGameDone(c, id)
  \/ CreateGame(GameIds)
  \/ \E u \in Updates, id \in GameIds, body \in ShortBodies :
       UpdateScore(u, id, body, MaxGatewayRequests)
  \/ \E u \in Updates : UpdRespond(u)

SpecFanout == Init /\ [][NextFanout]_vars

\* getPlayerGameStats, under every configuration of the service
NextStats ==
  \/ \E apiKey \in BOOLEAN, useRealAPI \in BOOLEAN, zone \in {UTC, NewYork} :
       Boot(apiKey, useRealAPI, zone)
  \/ \E q \in StatsCalls, playerId \in RosterIds, startDate \in Days, endDate \in Days :
       GetPlayerGameStats(q, playerId, startDate, endDate)
  \/ \E q \in StatsCalls : StatsResponse(q)

SpecStats == Init /\ [][NextStats]_vars

\* the pages getPlayers is asked for
PageInputs == {0, 1}
PerPageInputs == {1, 25}

\* the roster cache: getPlayers and refreshAllPlayers under a clock, in
\* every configuration of the service
NextRoster ==
  \/ \E apiKey \in BOOLEAN, useRealAPI \in BOOLEAN : Boot(apiKey, useRealAPI, UTC)
  \/ \E t \in Clock : Tick(t)
  \/ \E q \in Reads, page \in PageInputs, perPage \in PerPageInputs :
       GetPlayers(q, page, perPage, FALSE)
  \/ \E q \in Reads : refreshAllPlayers(q)
  \/ \E q \in Reads : GpCached(q)
  \/ \E q \in Reads : GpResponse(q)
  \/ \E q \in Reads : GpWrite(q)

SpecRoster == Init /\ [][NextRoster]_vars

\* needsRefresh next to the reads of the first page that fill the cache
NextFreshness ==
  \/ \E apiKey \in BOOLEAN, useRealAPI \in BOOLEAN : Boot(apiKey, useRealAPI, UTC)
  \/ \E t \in Clock : Tick(t)
  \/ \E q \in Reads : GetPlayers(q, 0, 25, FALSE)
  \/ \E q \in Reads : GpCached(q)
  \/ \E q \in Reads : GpResponse(q)
  \/ \E q \in Reads : GpWrite(q)
  \/ \E q \in Checks : NrRead(q)
  \/ \E q \in Checks : NrAnswer(q)

SpecFreshness == Init /\ [][NextFreshness]_vars

(* ------------------------------ claims -------------------------------- *)

\* no request is between its arrival and its answer
Quiet ==
  {r \in Calls : sim[r].pc \notin {"idle", "done"}} = {} /\
  {u \in Updates : upd[u].pc \notin {"idle", "done"}} = {}

\* C1: every connection is a member of at most one game room.
C1_AtMostOneRoom == \A c \in Conns : Cardinality(rooms[c]) <= 1

\* the point value of an event type: 2 or 3 for a made shot
Points(event) ==
  IF event = "2pt-made" THEN 2 ELSE IF event = "3pt-made" THEN 3 ELSE 0

RECURSIVE MadePoints(_, _)
MadePoints(S, id) ==
  IF S = {} THEN 0
  ELSE LET r == CHOOSE x \in S : TRUE
       IN (IF sim[r].id = id /\ sim[r].code = 200 THEN Points(sim[r].event) ELSE 0)
          + MadePoints(S \ {r}, id)

\* C2: once the simulateEvent calls on a game that started at 0-0 are all
\* answered (and no updateScore was made), home + away is the sum of the
\* point values of the made events of the calls.
C2_ScoreIsSumOfMadeShots ==
  (Quiet /\ \A u \in Updates : upd[u].pc = "idle") =>
    \A id \in GameIds :
      games[id] # NoGame => games[id].home + games[id].away = MadePoints(Calls, id)

\* the calls whose update the store has applied to game id: the simulateEvent
\* calls past their write, the updateScore calls with a highlight past theirs
AppliedSims(id) ==
  {r \in Calls : /\ sim[r].id = id
                 /\ \/ sim[r].pc = "respond" /\ sim[r].updatedGame # NoGame
                    \/ sim[r].pc = "done" /\ sim[r].code = 200}

AppliedUpdates(id) ==
  {u \in Updates : /\ upd[u].id = id
                   /\ upd[u].highlight.set
                   /\ \/ upd[u].pc = "respond" /\ upd[u].found
                      \/ upd[u].pc = "done" /\ upd[u].code = 200}

\* C3: the highlight log of a game holds exactly one entry per call whose
\* update was applied, whatever the interleaving: once the calls are
\* answered, one entry per successful call.
C3_OneHighlightPerCall ==
  \A id \in GameIds :
    Len(games[id].highlights) =
      Cardinality(AppliedSims(id)) + Cardinality(AppliedUpdates(id))

\* C3's case: three calls on one game, one of them an updateScore with a
\* highlight, all answered with success
C3_Witness ==
  /\ Quiet
  /\ \E id \in GameIds :
       /\ Len(games[id].highlights) >= 3
       /\ AppliedUpdates(id) # {}
       /\ Cardinality(AppliedSims(id)) >= 2

\* C4: every step of a simulateEvent call on a live game either is its
\* write, which puts the call's highlight last in the log and keeps the
\* entries before it, or leaves all games as they were; a call not written
\* is answered with an error, a written one with success.
C4_AppendsLastOrLeaves ==
  [][\A r \in Calls :
       (sim'[r] # sim[r] /\ games[sim'[r].id].status = "live") =>
         \/ /\ sim[r].pc = "update" /\ sim'[r].pc = "respond"
            /\ games'[sim[r].id].highlights =
                 Append(games[sim[r].id].highlights, sim[r].highlight)
            /\ \A id \in GameIds \ {sim[r].id} : games'[id] = games[id]
         \/ /\ games' = games
            /\ sim[r].pc = "respond" => sim'[r].code = 200
            /\ (sim[r].pc # "respond" /\ sim'[r].pc = "done") =>
                 sim'[r].code \in {400, 404, 500}]_vars

\* C4's case: a call has written to a live game that had entries before
C4_Witness ==
  \E r \in Calls :
    /\ sim[r].pc = "respond"
    /\ games[sim[r].id].status = "live"
    /\ Len(games[sim[r].id].highlights) >= 2

\* C5: a simulateEvent call that was handed a final game is answered with
\* an error there and then: it never goes on to draw an event and write.
C5_FinalGameNotSimulated ==
  \A r \in Calls : sim[r].pc \in {"players", "update"} => sim[r].game.status # "final"

\* the place of a status in scheduled -> live -> final
Rank(status) ==
  CASE status = "scheduled" -> 1 [] status = "live" -> 2 [] status = "final" -> 3
    [] OTHER -> 0

\* C6: the status of a game never moves back.
C6_StatusMovesForward ==
  [][\A id \in GameIds :
       games[id] # NoGame => Rank(games'[id].status) >= Rank(games[id].status)]_vars

\* C7: while no updateScore was made, the persisted scores are
\* non-negative and no step lowers one.
C7_ScoresNeverDecrease ==
  [][(\A u \in Updates : upd'[u].pc = "idle") =>
       \A id \in GameIds :
         games[id] # NoGame =>
           /\ games'[id].home >= games[id].home /\ games'[id].home >= 0
           /\ games'[id].away >= games[id].away /\ games'[id].away >= 0]_vars

\* C8: the quarter of a game is positive and no step lowers it.
C8_QuarterPositiveAndForward ==
  [][\A id \in GameIds :
       games'[id] # NoGame =>
         /\ games'[id].quarter >= 1
         /\ games[id] # NoGame => games'[id].quarter >= games[id].quarter]_vars

\* C9: once the join and leave requests received so far are all processed,
\* the members of a room, and the count getGameRoomClients reports, are the
\* connections that asked to join the room and have not asked to leave it
\* or disconnected since, in whatever order the requests were processed
\* (`viewers` follows the requests in the order they arrive: a join-game of
\* an existing game adds the room, and with the listener of gameSocket takes
\* the place of the rooms before; a leave-game or a disconnect removes).
C9_RoomIsJoinedNotLeft ==
  joins = {} =>
    \A id \in GameIds :
      /\ {c \in Conns : id \in rooms[c]} = {c \in Conns : id \in viewers[c]}
      /\ getGameRoomClients(id) = Cardinality({c \in Conns : id \in viewers[c]})

\* C10: game-update and game-highlight reach every connection in the room
\* of the game and no connection that is in another room or in none.
C10_PublishReachesOnlyTheRoom ==
  \A i \in DOMAIN emitted :
    emitted[i].ev \in {"game-update", "game-highlight"} =>
      /\ \A c \in Conns :
           (conn[c] = "open" /\ emitted[i].room \in rooms[c]) => c \in emitted[i].dest
      /\ \A d \in emitted[i].dest : rooms[d] = {emitted[i].room}

RECURSIVE PlayerRecords(_, _)
PlayerRecords(log, playerId) ==
  IF log = <<>> THEN <<>>
  ELSE LET answer == Head(log)
           own == IF answer.ok
                  THEN SelectSeq(answer.data, LAMBDA g : g.PlayerID = playerId)
                  ELSE <<>>
       IN [k \in DOMAIN own |-> [player |-> playerId, date |-> answer.date]]
          \o PlayerRecords(Tail(log), playerId)

\* C13: a getPlayerGames call whose fetches found a record of the player
\* returns, whatever days failed, exactly the player's records of the days
\* whose fetch succeeded; it asks for each of its days once, in order.
C13_FailedDaySkipped ==
  \A q \in StatsCalls :
    (gs[q].pc = "done" /\ gs[q].outcome # "not-available") =>
      /\ [k \in DOMAIN gs[q].log |-> gs[q].log[k].date] = gs[q].dates
      /\ PlayerRecords(gs[q].log, gs[q].playerId) # <<>> =>
           /\ gs[q].outcome = "data"
           /\ gs[q].data = PlayerRecords(gs[q].log, gs[q].playerId)

\* C13's case: three days, the second failed, the first and the third each
\* answered a record of the player next to one of another player
C13_Witness ==
  \E q \in StatsCalls :
    /\ gs[q].pc = "done" /\ gs[q].outcome = "data"
    /\ gs[q].dates = <<0, 1, 2>>
    /\ ~gs[q].log[2].ok
    /\ Len(gs[q].log[1].data) = 2 /\ Len(gs[q].log[3].data) = 2
    /\ gs[q].data = <<[player |-> gs[q].playerId, date |-> 0],
                      [player |-> gs[q].playerId, date |-> 2]>>

\* C14: a getPlayerGames call never returns an empty success: when its
\* fetches found no record of the player (every day failed, or no body held
\* one, or the range had no day) the caller gets the 'No game data' error.
C14_NeverEmptySuccess ==
  \A q \in StatsCalls :
    gs[q].pc = "done" =>
      /\ gs[q].outcome = "data" => gs[q].data # <<>>
      /\ (gs[q].outcome # "not-available" /\ PlayerRecords(gs[q].log, gs[q].playerId) = <<>>) =>
           gs[q].outcome = "no-data"

\* C14's case: every day of a range of three failed
C14_Witness ==
  \E q \in StatsCalls :
    /\ gs[q].pc = "done" /\ gs[q].outcome = "no-data"
    /\ Len(gs[q].log) = 3
    /\ \A k \in DOMAIN gs[q].log : ~gs[q].log[k].ok

\* the greatest of a non-empty set of numbers
Newest(S) == CHOOSE t \in S : \A u \in S : t >= u

C16_CacheConsultedBeforeFetch ==
  /\ \A q \in Reads :
       (gp[q].fetches > 0 /\ ~gp[q].forceRefresh) => gp[q].consulted
  /\ \A q \in StatsCalls : gs[q].log # <<>> => gs[q].consulted

\* C17: a getPlayers call whose upstream fetch failed while the cache held a
\* roster written from upstream returns that roster, not the development
\* players.
C17_FallsBackToCachedRoster ==
  \A q \in Reads :
    (gp[q].pc = "done" /\ gp[q].failed /\ gp[q].hadRoster) => gp[q].source = "cache"

\* C18: no record of the development players is stored in the cache under
\* the data source 'sportsdata'.
C18_FallbackNeverTaggedLive ==
  \A d \in cache : d.origin = "development" => d.dataSource # "sportsdata"

\* C19: the step that carries out a 'simulate-event' game-action appends a
\* highlight to the game and publishes game-update to the game's room.
C19_GameActionRunsSimulation ==
  [][\A a \in actions :
       (a \notin actions' /\ a.actionType = "simulate-event" /\ conn' = conn) =>
         /\ Len(games'[a.gameId].highlights) = Len(games[a.gameId].highlights) + 1
         /\ \E i \in DOMAIN emitted' :
              emitted'[i].ev = "game-update" /\ emitted'[i].room = a.gameId]_vars

\* C20: no socket request takes the gateway down, and an 'error' event goes
\* to one connection only: a step closes at most one connection, never one
\* that had not connected yet, and every 'error' it emits has at most one
\* receiver.
C20_MalformedPayloadStaysScoped ==
  [][/\ \A c \in Conns : conn[c] = "new" => conn'[c] # "closed"
     /\ Cardinality({c \in Conns : conn[c] = "open" /\ conn'[c] = "closed"}) <= 1
     /\ \A i \in DOMAIN emitted' :
          emitted'[i].ev = "error" => Cardinality(emitted'[i].dest) <= 1]_vars

\* C21: a step that disconnects a connection leaves it in no room, and every
\* other connected member of each room it was in is sent user-left for that
\* room in that step.
C21_DisconnectLeavesAndNotifies ==
  [][\A c \in Conns :
       (Connected(c) /\ conn'[c] = "closed") =>
         /\ rooms'[c] = {}
         /\ \A id \in rooms[c] : \A d \in Conns \ {c} :
              (Connected(d) /\ id \in rooms[d]) =>
                \E i \in DOMAIN emitted' :
                  /\ emitted'[i].ev = "user-left" /\ emitted'[i].room = id
                  /\ d \in emitted'[i].dest]_vars

\* C22: a leave-game step takes the room from the rooms of the connection
\* and changes nothing else: the rooms of the others stay, a leave of a room
\* the connection is not in changes no membership, a second leave would
\* change nothing, no 'error' is sent, and the room the last member left is
\* reported with size 0.
C22_LeaveIsIdempotent ==
  [][\A i \in DOMAIN emitted', id \in GameIds :
       (emitted'[i].ev = "game-left" /\ emitted'[i].room = id) =>
           /\ \A j \in DOMAIN emitted' : emitted'[j].ev # "error"
           /\ \A c \in emitted'[i].dest :
                /\ rooms'[c] = rooms[c] \ {id}
                /\ \A d \in Conns \ {c} : rooms'[d] = rooms[d]
                /\ id \notin rooms[c] => rooms' = rooms
                /\ Leave(rooms'[c], id) = rooms'[c]
                /\ {d \in Conns : id \in rooms[d]} \subseteq {c} =>
                     getGameRoomClients(id)' = 0]_vars

\* C22's case: a connection has left the room of a game that was never
\* created, which no connection can be in, while another connection is in
\* a room
C22_Witness ==
  /\ Len(emitted) = 1 /\ emitted[1].ev = "game-left"
  /\ games[emitted[1].room] = NoGame
  /\ emitted[1].dest # {}
  /\ \E d \in Conns \ emitted[1].dest : rooms[d] # {}

C24_ChatReachesTheOthers ==
  [][\A c \in Conns, data \in MessageInputs :
       (data.ok /\ SendMessage(c, data)) =>
         /\ Len(emitted') = 1
         /\ emitted'[1].ev = "new-message" /\ emitted'[1].room = data.gameId
         /\ emitted'[1].dest =
              {d \in Conns \ {c} : Connected(d) /\ data.gameId \in rooms[d]}
         /\ emitted'[1].payload.message = data.message
         /\ emitted'[1].payload.username = data.username
         /\ emitted'[1].payload.timestamp = "server"]_vars

\* C24's case: a member of a room has sent a text that went to the other
\* member of the room
C24_Witness ==
  /\ Len(emitted) = 1 /\ emitted[1].ev = "new-message"
  /\ emitted[1].payload.message # ""
  /\ emitted[1].dest # {}
  /\ emitted[1].payload.userId \notin emitted[1].dest
  /\ emitted[1].room \in rooms[emitted[1].payload.userId]

\* C25: every step leaves the highlight log of a game as it was or puts one
\* entry after the entries it had, which stay as they were and where they
\* were: the entry of the call whose update the store applies in that step.
\* The log is so in the order the updates were applied.
C25_LogInAppliedOrder ==
  [][\A id \in GameIds :
       games[id] # NoGame =>
         LET old == games[id].highlights
             new == games'[id].highlights
         IN \/ new = old
            \/ /\ Len(new) = Len(old) + 1
               /\ SubSeq(new, 1, Len(old)) = old
               /\ \/ \E r \in Calls :
                       /\ sim[r].pc = "update" /\ sim'[r].pc = "respond" /\ sim[r].id = id
                       /\ new[Len(new)] = sim[r].highlight
                  \/ \E u \in Updates :
                       /\ upd[u].pc = "idle" /\ upd'[u].pc = "respond" /\ upd'[u].id = id
                       /\ upd'[u].highlight.set
                       /\ new[Len(new)] = upd'[u].highlight.val]_vars

\* C25's case: of two simulateEvent calls on a game the second to arrive was
\* applied first, and its entry comes first in the log
C25_Witness ==
  \E id \in GameIds :
    /\ \A r \in {1, 2} : sim[r].id = id /\ r \in AppliedSims(id)
    /\ sim[1].event # sim[2].event
    /\ Len(games[id].highlights) = 2
    /\ games[id].highlights[1].description = getEventDescription(sim[2].event)
    /\ games[id].highlights[2].description = getEventDescription(sim[1].event)

\* C26: when the store applies the update of a simulateEvent call to a game
\* that is as the call read it (nothing was written to it in between), the
\* score of the chosen side goes up by the point value of the event, 2 or 3
\* for a made shot and 0 for every other event, and the score of the other
\* side stays.
C26_MadeShotsScore ==
  [][\A r \in Calls :
       (/\ sim[r].pc = "update" /\ sim'[r].pc = "respond"
        /\ games[sim[r].id] # NoGame
        /\ Read(games[sim[r].id]) = sim[r].game) =>
         LET id == sim[r].id
             points == Points(sim[r].event)
         IN /\ games'[id].home = games[id].home + (IF sim[r].isHome THEN points ELSE 0)
            /\ games'[id].away = games[id].away + (IF sim[r].isHome THEN 0 ELSE points)]_vars

\* C26's case: the one call that has arrived made a 3-pointer for the home
\* side of a game at 0-0
C26_Witness ==
  \E r \in Calls :
    /\ sim[r].pc = "respond" /\ sim[r].event = "3pt-made"
    /\ sim[r].updatedGame.home = 3 /\ sim[r].updatedGame.away = 0
    /\ games[sim[r].id].home = 3 /\ games[sim[r].id].away = 0
    /\ \A q \in Calls \ {r} : sim[q].pc = "idle"
    /\ \A u \in Updates : upd[u].pc = "idle"

\* C27: the step that answers a simulateEvent call with success sends one
\* game-update, of type simulation-event, to the connected members of the
\* game's room, with the event of the call and the game as the call's update
\* returned it; by then the store holds the highlight of the call, and the
\* step changes no game, whoever the update reaches.  No other step sends a
\* game-update of that type.
C27_OnePublishAfterPersist ==
  [][/\ \A r \in Calls :
          (sim[r].pc # "done" /\ sim'[r].pc = "done" /\ sim'[r].code = 200) =>
            /\ Len(emitted') = 1
            /\ emitted'[1].ev = "game-update" /\ emitted'[1].type = "simulation-event"
            /\ emitted'[1].room = sim[r].id
            /\ emitted'[1].dest = {c \in Conns : Connected(c) /\ sim[r].id \in rooms[c]}
            /\ emitted'[1].payload.event = sim[r].event
            /\ emitted'[1].payload.game = sim[r].updatedGame
            /\ sim[r].updatedGame # NoGame
            /\ \E k \in DOMAIN games[sim[r].id].highlights :
                 /\ games[sim[r].id].highlights[k].description =
                      getEventDescription(sim[r].event)
                 /\ games[sim[r].id].highlights[k].type = "score"
            /\ games' = games
     /\ \A i \in DOMAIN emitted' :
          (emitted'[i].ev = "game-update" /\ emitted'[i].type = "simulation-event") =>
            \E r \in Calls : sim[r].pc = "respond" /\ sim'[r].pc = "done"
                              /\ sim'[r].code = 200]_vars

\* C27's case: a made 2-pointer was published to a member of the room, and
\* the store holds the score and the highlight
C27_Witness ==
  /\ Len(emitted) = 1
  /\ emitted[1].ev = "game-update" /\ emitted[1].type = "simulation-event"
  /\ emitted[1].dest # {}
  /\ emitted[1].payload.event = "2pt-made"
  /\ games[emitted[1].room].home + games[emitted[1].room].away = 2
  /\ Len(games[emitted[1].room].highlights) = 1

\* the value of a field after a patch: the value the body supplies, whatever
\* it is, or else the value before
Patched(field, before) == IF field.set THEN field.val ELSE before

Published == {"game-update", "game-highlight"}

\* C29: a published event is sent in one step, the answer of its request,
\* once, and to connections that are members of the room when it is sent; a
\* request that is answered does nothing more, and the step that makes a
\* connection a member of a room sends no published event: what was
\* published before is not sent again.
C29_PublishOnceNoReplay ==
  [][/\ \A i \in DOMAIN emitted' :
          emitted'[i].ev \in Published =>
            /\ emitted'[i].dest \subseteq
                 {c \in Conns : Connected(c) /\ emitted'[i].room \in rooms[c]}
            /\ \/ \E r \in Calls : /\ sim[r].pc = "respond" /\ sim'[r].pc = "done"
                                    /\ sim[r].id = emitted'[i].room
               \/ \E u \in Updates : /\ upd[u].pc = "respond" /\ upd'[u].pc = "done"
                                      /\ upd[u].id = emitted'[i].room
            /\ \A j \in DOMAIN emitted' : emitted'[j].ev = emitted'[i].ev => j = i
     /\ \A r \in Calls : sim[r].pc = "done" => sim'[r] = sim[r]
     /\ \A u \in Updates : upd[u].pc = "done" => upd'[u] = upd[u]
     /\ \A c \in Conns, id \in GameIds :
          (id \notin rooms[c] /\ id \in rooms'[c]) =>
            \A i \in DOMAIN emitted' : emitted'[i].ev \notin Published]_vars

\* C29's case: an event was published to a member of a room while the join
\* of another connection to that room was under way; it did not go to that
\* connection
C29_Witness ==
  /\ Len(emitted) >= 1 /\ emitted[1].ev \in Published
  /\ emitted[1].dest # {}
  /\ \E c \in Conns \ emitted[1].dest :
       /\ conn[c] = "open"
       /\ [conn |-> c, gameId |-> emitted[1].room] \in joins

DaysOfRange(startDate, endDate) ==
  [k \in 1..(IF endDate >= startDate THEN endDate - startDate + 1 ELSE 0) |->
     startDate + k - 1]

\* C31: a getPlayerGames call that goes upstream lists exactly the calendar
\* days from startDate to endDate, both included (none when the start is
\* after the end), asks the upstream once for each of them in that order,
\* and returns the player's records in the order of the days.
C31_OneFetchPerDayOfRange ==
  /\ [][\A q \in StatsCalls, playerId \in RosterIds, startDate \in Days, endDate \in Days :
          (env.useRealAPI /\ env.apiKey
             /\ GetPlayerGameStats(q, playerId, startDate, endDate))
            => gs'[q].dates = DaysOfRange(startDate, endDate)]_vars
  /\ [](\A q \in StatsCalls :
          (gs[q].pc = "done" /\ gs[q].outcome # "not-available") =>
            /\ [k \in DOMAIN gs[q].log |-> gs[q].log[k].date] = gs[q].dates
            /\ gs[q].outcome = "data" =>
                 gs[q].data = PlayerRecords(gs[q].log, gs[q].playerId))

\* C32: while the upstream request for one day of a getPlayerGames call is
\* still unanswered (slow, or hanging until its own timeout), the call can
\* go on to the fetch of a later day of its range: no day waits for the end
\* of another day's request.
C32_HangingDayBlocksNoOtherDay ==
  \A q \in StatsCalls :
    (gs[q].pc = "fetch" /\ gs[q].i < Len(gs[q].dates)) =>
      ENABLED (NextStats /\ gs'[q].log = gs[q].log /\ gs'[q].i > gs[q].i)

\* C33: an 'error' event is sent only by a join-game or game-action request
\* (a missing game, a lookup that failed, a socket that is not in the room,
\* an unknown action type), and the step that sends it delivers it to the
\* requesting connection alone, changes no other connection's rooms, no
\* game document, and closes no connection.
C33_ErrorsStayWithTheRequester ==
  [][(\E i \in DOMAIN emitted' : emitted'[i].ev = "error") =>
       /\ \E c \in Conns :
            \/ \E id \in GameIds : JoinGame(c, id)
            \/ \E data \in ActionInputs : GameAction(c, data)
            \/ \E id \in GameIds, t \in ActionTypes : GameActionDone(c, id, t)
       /\ \A c \in Conns :
            (\/ \E id \in GameIds : JoinGame(c, id)
             \/ \E data \in ActionInputs : GameAction(c, data)
             \/ \E id \in GameIds, t \in ActionTypes : GameActionDone(c, id, t))
              => /\ \A i \in DOMAIN emitted' : emitted'[i].dest \subseteq {c}
                 /\ \A d \in Conns \ {c} : rooms'[d] = rooms[d]
                 /\ games' = games
                 /\ conn' = conn]_vars

\* C33's case: a connection that is in a room was sent 'error' about a game
\* that does not exist, while another connection is in a room
C33_Witness ==
  \E c \in Conns, d \in Conns, id \in GameIds :
    /\ c # d /\ rooms[c] # {} /\ rooms[d] # {}
    /\ games[id] = NoGame
    /\ emitted = <<EmitToSocket("error", id, c)>>
    /\ emitted[1].dest = {c}

\* C34: the cache holds at most one record per player identifier, and a
\* cache write replaces the record of its player with the values and the
\* timestamp of that write, leaving the records of the other players as
\* they were.
C34_RefreshSupersedes ==
  /\ [](\A d1 \in cache, d2 \in cache : d1.playerId = d2.playerId => d1 = d2)
  /\ [][\A q \in Reads :
          GpWrite(q) =>
            \A id \in RosterIds \cup {developmentPlayers[k] : k \in DOMAIN developmentPlayers} :
              IF id = gp[q].apiPlayers[gp[q].i]
              THEN {d \in cache' : d.playerId = id} =
                     {PlayerDoc(id, "sportsdata", now, gp[q].origin)}
              ELSE {d \in cache' : d.playerId = id} = {d \in cache : d.playerId = id}]_vars

\* C34's case: two requests each fetched a roster from upstream and wrote
\* it, the first players 2 and 1, the second player 1 after the clock moved
\* on: the cache holds one record of player 1, with the later timestamp
C34_Witness ==
  \E q1 \in Reads, q2 \in Reads :
    /\ q1 # q2
    /\ gp[q1].pc = "done" /\ gp[q1].source = "upstream"
    /\ gp[q2].pc = "done" /\ gp[q2].source = "upstream"
    /\ \E d \in cache : d.playerId = 2 /\ d.lastUpdated < now
    /\ \E d \in cache : d.playerId = 1 /\ d.lastUpdated = now
    /\ Cardinality({d \in cache : d.playerId = 1}) = 1

C36_LastLookupDecidesTheRoom ==
  /\ [](\A c \in Conns : Cardinality(rooms[c]) <= 1)
  /\ [][\A c \in Conns, id \in GameIds :
          JoinGameDone(c, id) =>
            /\ rooms'[c] = {id}
            /\ \A other \in GameIds \ {id} :
                 [conn |-> c, gameId |-> other] \in joins =>
                   /\ [conn |-> c, gameId |-> other] \in joins'
                   /\ other \notin rooms'[c]]_vars

\* C36's case: a connection asked to join one game and then another while
\* the first lookup was pending; the second lookup finished first, the first
\* one last: both are complete and the connection is in the room of the
\* game it asked for first, and only there
C36_Witness ==
  \E c \in Conns, first \in GameIds, second \in GameIds :
    /\ first # second
    /\ conn[c] = "open"
    /\ \A id \in GameIds : [conn |-> c, gameId |-> id] \notin joins
    /\ viewers[c] = {second}
    /\ rooms[c] = {first}
    /\ emitted = <<EmitToSocket("game-joined", first, c), EmitToOthers("user-joined", first, c)>>

\* C37: a game-action or send-message request that names a game whose room
\* the requesting connection is not in delivers nothing to the members of
\* that room: whatever the step emits goes to the requester at most, and no
\* action on the game is left under way.
C37_OnlyMembersReachTheRoom ==
  [][\A c \in Conns :
       /\ \A data \in ActionInputs :
            (data.ok /\ data.gameId \notin rooms[c] /\ GameAction(c, data)) =>
              /\ actions' = actions
              /\ \A i \in DOMAIN emitted' : emitted'[i].dest \subseteq {c}
       /\ \A data \in MessageInputs :
            (data.ok /\ data.gameId \notin rooms[c] /\ SendMessage(c, data)) =>
              \A i \in DOMAIN emitted' : emitted'[i].dest \subseteq {c}]_vars

\* the type tag that names an event: the fouls and the turnovers have tags
\* of their own, the shots (made or missed) are 'score'
EventTag(event) ==
  IF event \in {"foul", "turnover"} THEN event ELSE "score"

\* C38: the highlight a simulateEvent call appends to the log of its game
\* carries the type tag of the event the call simulated: 'foul' for a foul,
\* 'turnover' for a turnover, 'score' for a shot.
C38_HighlightTagMatchesEvent ==
  [][\A r \in Calls :
       (sim[r].pc = "update" /\ sim'[r].pc = "respond"
          /\ games'[sim[r].id].highlights # games[sim[r].id].highlights) =>
         LET log == games'[sim[r].id].highlights
         IN log[Len(log)].type = EventTag(sim[r].event)]_vars

\* C39: needsRefresh and the cache read agree on freshness.  The answer of a
\* needsRefresh call that was computed at the present clock over the cache
\* as it is now is false exactly when a read of the first page (page 0, any
\* page size of at least one) finds players in the cache, also when the age
\* of the newest record is exactly the TTL.
C39_FreshnessAgrees ==
  \A q \in Checks :
    (/\ nr[q].pc = "done" /\ nr[q].at = now
     /\ nr[q].seen = {d.lastUpdated : d \in {e \in cache : e.dataSource = "sportsdata"}}) =>
      \A perPage \in PerPageInputs :
        ~nr[q].result <=> getCachedPlayers(cache, now, 0, perPage) # <<>>

\* C39's case: a needsRefresh call answered false at the moment the newest
\* record of the cache is exactly as old as the TTL
C39_Witness ==
  \E q \in Checks :
    /\ nr[q].pc = "done" /\ nr[q].at = now /\ ~nr[q].result
    /\ nr[q].seen = {d.lastUpdated : d \in cache}
    /\ cache # {}
    /\ now - Newest(nr[q].seen) = cacheTTL

\* C40: the step that answers an updateScore call with success publishes
\* game-update to the connected members of the game's room first and, when
\* and only when the patch carried a highlight, game-highlight with that
\* highlight to the same members next, and nothing else; the update was
\* applied to the store before (the log holds the highlight by then) and the
\* step changes no game.  No other step publishes a score update or a
\* game-highlight.
C40_UpdateThenHighlight ==
  [][/\ \A u \in Updates :
          (upd[u].pc = "respond" /\ upd'[u].pc = "done" /\ upd'[u].code = 200) =>
            /\ upd[u].found /\ games[upd[u].id] # NoGame
            /\ Len(emitted') = IF upd[u].highlight.set THEN 2 ELSE 1
            /\ emitted'[1].ev = "game-update" /\ emitted'[1].type = "score-update"
            /\ \A i \in DOMAIN emitted' :
                 /\ emitted'[i].room = upd[u].id
                 /\ emitted'[i].dest = {c \in Conns : Connected(c) /\ upd[u].id \in rooms[c]}
            /\ upd[u].highlight.set =>
                 /\ emitted'[2].ev = "game-highlight"
                 /\ emitted'[2].payload.highlight = upd[u].highlight.val
                 /\ \E k \in DOMAIN games[upd[u].id].highlights :
                      games[upd[u].id].highlights[k] = upd[u].highlight.val
            /\ games' = games
     /\ \A i \in DOMAIN emitted' :
          (emitted'[i].ev = "game-highlight" \/ emitted'[i].type = "score-update") =>
            \E u \in Updates : /\ upd[u].pc = "respond" /\ upd'[u].pc = "done"
                               /\ upd'[u].code = 200]_vars

\* C40's case: a patch with a highlight was answered: game-update and then
\* game-highlight with the highlight went to a member of the room, and the
\* log of the game holds the highlight
C40_Witness ==
  /\ Len(emitted) = 2
  /\ emitted[1].ev = "game-update" /\ emitted[1].type = "score-update"
  /\ emitted[2].ev = "game-highlight"
  /\ emitted[1].dest # {} /\ emitted[2].dest = emitted[1].dest
  /\ \E k \in DOMAIN games[emitted[2].room].highlights :
       games[emitted[2].room].highlights[k] = emitted[2].payload.highlight

====
